---- MODULE Spec2Model ----
(***************************************************************************)
(* btcd_exporter: a Prometheus collector that, on every scrape, queries a  *)
(* btcd node over one shared rpcclient session and republishes the result  *)
(* as metric samples.  Two variants of the program are modelled: the       *)
(* "extended" one (src/btcd_exporter.go, with the TLS certificate and the  *)
(* latest_block_timestamp metric) and the "base" one (src/unnamed/part_000)*)
(***************************************************************************)
EXTENDS Integers, Sequences, FiniteSets, TLC

\* Number of scrape handlers the HTTP layer may run at the same time.
MaxConcurrent == 2
\* Number of scrapes started over one run of the process.
MaxScrapes == 2

Procs == 1..MaxConcurrent
Variants == {"base", "extended"}
Nil == [nil |-> TRUE]
NoSamples == <<>>

---------------------------------------------------------------------------
(* The descriptor table (package-level vars).                              *)

namespace == "btcd"

BuildFQName(ns, subsystem, name) ==
    IF name = "" THEN ""
    ELSE IF subsystem = "" THEN ns \o "_" \o name
    ELSE ns \o "_" \o subsystem \o "_" \o name

NewDesc(fqName, help) == [fqName |-> fqName, help |-> help]

up == NewDesc(BuildFQName(namespace, "", "up"),
              "Was the last btcd query successful.")
blocks == NewDesc(BuildFQName(namespace, "", "blocks_total"),
                  "How many blocks are reported by btcd getinfo.")
latestBlock == NewDesc(BuildFQName(namespace, "", "latest_block_timestamp"),
                       "Timestamp of the latest block in the chain. According to block header information.")
peers == NewDesc(BuildFQName(namespace, "", "peers"),
                 "How many peers are reported by btcd getinfo.")
difficulty == NewDesc(BuildFQName(namespace, "", "difficulty"),
                      "What is difficulty reported by btcd getinfo.")
bytesSent == NewDesc(BuildFQName(namespace, "", "sent_bytes"),
                     "How many bytes have been sent reported by btcd getnettotals.")
bytesReceived == NewDesc(BuildFQName(namespace, "", "received_bytes"),
                         "How many bytes have been received reported by btcd getnettotals.")

GaugeValue == "gauge"
CounterValue == "counter"

MustNewConstMetric(desc, valueType, value) ==
    [desc |-> desc, valueType |-> valueType, value |-> value]

---------------------------------------------------------------------------
(* The upstream node, as seen through the rpcclient session: every query   *)
(* is a blocking round trip that returns a result or an error.  The values *)
(* are small integers, which Go's int(...) and float64(...) conversions    *)
(* carry over unchanged.                                                   *)

\* The error a failed round trip of `method` comes back with.
UpstreamErrors(method) == { [query |-> method, reason |-> "connection refused"] }
InfoResults ==
    { [Blocks |-> b, Connections |-> 8, Difficulty |-> 55] : b \in {800000, 800001} }
NetTotalsResults ==
    { [TotalBytesSent |-> 1000000, TotalBytesRecv |-> 2000000] }
BlockHashes == { [hash |-> h] : h \in {"00a1", "00b2"} }
\* The header stored under a hash never changes; Timestamp is its Unix time.
HeaderOf(hash) ==
    [Timestamp |-> IF hash.hash = "00a1" THEN 1700000000 ELSE 1700000600]

Ok(result) == [result |-> result, err |-> Nil]
Failed(e) == [result |-> Nil, err |-> e]

\* What a round trip of `method` can come back with: one of `results`, or an error.
Replies(outcome, method, results) ==
    IF outcome = "ok" THEN { Ok(r) : r \in results }
    ELSE { Failed(e) : e \in UpstreamErrors(method) }
Outcomes == {"ok", "error"}

---------------------------------------------------------------------------
VARIABLES
    variant,        \* which of the two programs runs
    env,            \* BTCD_EXPORTER_HOST, _USERNAME and _PASSWORD
    mainPc,         \* position of main
    certRead,       \* outcome of ioutil.ReadFile(certPath): "none", "ok", "failed"
    client,         \* the rpcclient session, Nil until rpcclient.New succeeds
    registered,     \* descriptors the registry got from Describe at MustRegister
    listening,      \* TRUE once :9101 is bound
    pc,             \* position of each scrape handler
    info, netTotals, bestBlockHash, blockHeader,   \* locals of GetAllStatistics
    statistics, err,                               \* locals of Collect
    ch,             \* the samples each handler's Collect has sent
    calls,          \* history: upstream queries issued by the current Collect
    resp,           \* history: replies received by the current Collect
    prev,           \* history: samples of the handler's previous scrape
    started         \* history: number of scrapes started

mainVars == <<mainPc, certRead, client, registered, listening>>
fetchVars == <<info, netTotals, bestBlockHash, blockHeader>>
collectVars == <<statistics, err, ch>>
histVars == <<prev, started>>
vars == <<variant, env, mainVars, pc, fetchVars, collectVars, calls, resp, histVars>>

---------------------------------------------------------------------------
(* main                                                                    *)

EnvValues == {"", "set"}

EnvMissing == env.host = "" \/ env.username = "" \/ env.password = ""

\* Variation: the three emptiness tests joined by && instead of ||.
MainCheckEnvAllEmpty ==
    /\ mainPc = "start"
    /\ mainPc' = IF env.host = "" /\ env.username = "" /\ env.password = ""
                 THEN "fatal"
                 ELSE IF variant = "extended" THEN "readCert" ELSE "newClient"
    /\ UNCHANGED <<variant, env, certRead, client, registered, listening, pc,
                   fetchVars, collectVars, calls, resp, histVars>>

MainCheckEnv ==
    /\ mainPc = "start"
    /\ mainPc' = IF EnvMissing THEN "fatal"
                 ELSE IF variant = "extended" THEN "readCert" ELSE "newClient"
    /\ UNCHANGED <<variant, env, certRead, client, registered, listening, pc,
                   fetchVars, collectVars, calls, resp, histVars>>

\* BTCD_EXPORTER_CERT_PATH is read here; unset, it falls back to
\* <btcd home>/rpc.cert.  Either way the file at that path is read, and a
\* read error is fatal.
DefaultCertPath == "rpc.cert"

MainReadCert ==
    /\ mainPc = "readCert"
    /\ \E certPath \in EnvValues : \E unreadable \in SUBSET {certPath, DefaultCertPath} :
          LET path == IF certPath = "" THEN DefaultCertPath ELSE certPath
              readable == path \notin unreadable
          IN /\ certRead' = IF readable THEN "ok" ELSE "failed"
             /\ mainPc' = IF readable THEN "newClient" ELSE "fatal"
    /\ UNCHANGED <<variant, env, client, registered, listening, pc,
                   fetchVars, collectVars, calls, resp, histVars>>

MainNewClient ==
    /\ mainPc = "newClient"
    /\ \E connected \in BOOLEAN :
          /\ client' = IF connected THEN [session |-> env.host] ELSE Nil
          /\ mainPc' = IF connected THEN "register" ELSE "fatal"
    /\ UNCHANGED <<variant, env, certRead, registered, listening, pc,
                   fetchVars, collectVars, calls, resp, histVars>>

\* Variation: latestBlock added to Collect but not to Describe.
DescribeWithoutLatestBlock ==
    <<up, blocks, peers, difficulty, bytesSent, bytesReceived>>

Describe ==
    IF variant = "extended"
    THEN <<up, blocks, peers, difficulty, bytesSent, bytesReceived, latestBlock>>
    ELSE <<up, blocks, peers, difficulty, bytesSent, bytesReceived>>

\* NewExporter(client); prometheus.MustRegister(exporter) runs Describe.
MainRegister ==
    /\ mainPc = "register"
    /\ registered' = Describe
    /\ mainPc' = "listen"
    /\ UNCHANGED <<variant, env, certRead, client, listening, pc,
                   fetchVars, collectVars, calls, resp, histVars>>

MainListen ==
    /\ mainPc = "listen"
    /\ \E bound \in BOOLEAN :
          /\ listening' = bound
          /\ mainPc' = IF bound THEN "serving" ELSE "fatal"
    /\ UNCHANGED <<variant, env, certRead, client, registered, pc,
                   fetchVars, collectVars, calls, resp, histVars>>

Alive == mainPc = "serving"

---------------------------------------------------------------------------
(* One scrape: promhttp.Handler -> registry.Gather -> Exporter.Collect      *)

StartCollect(p) ==
    /\ Alive /\ listening
    /\ pc[p] \in {"idle", "done"}
    /\ started < MaxScrapes
    /\ started' = started + 1
    /\ prev' = [prev EXCEPT ![p] = ch[p]]
    /\ ch' = [ch EXCEPT ![p] = NoSamples]
    /\ calls' = [calls EXCEPT ![p] = <<>>]
    /\ resp' = [resp EXCEPT ![p] = <<>>]
    /\ pc' = [pc EXCEPT ![p] = "GetInfo"]
    /\ UNCHANGED <<variant, env, mainVars, fetchVars, statistics, err>>

Query(method, arg) == [method |-> method, arg |-> arg]

Waiting(method) == method \o ".wait"

\* e.client.<method>(arg) is sent on the session; the caller blocks.
Issue(p, method, arg) ==
    /\ Alive
    /\ pc[p] = method
    /\ calls' = [calls EXCEPT ![p] = Append(@, Query(method, arg))]
    /\ pc' = [pc EXCEPT ![p] = Waiting(method)]
    /\ UNCHANGED <<variant, env, mainVars, fetchVars, collectVars, resp, histVars>>

\* Variation: statistics and err kept in package-level variables, which every
\* handler reads.
ReturnShared(p, st, e) ==
    /\ statistics' = [q \in Procs |-> st]
    /\ err' = [q \in Procs |-> e]
    /\ info' = [info EXCEPT ![p] = Nil]
    /\ netTotals' = [netTotals EXCEPT ![p] = Nil]
    /\ bestBlockHash' = [bestBlockHash EXCEPT ![p] = Nil]
    /\ blockHeader' = [blockHeader EXCEPT ![p] = Nil]
    /\ pc' = [pc EXCEPT ![p] = "Collect"]

\* GetAllStatistics returns (st, e) to Collect; its locals go out of scope.
Return(p, st, e) ==
    /\ statistics' = [statistics EXCEPT ![p] = st]
    /\ err' = [err EXCEPT ![p] = e]
    /\ info' = [info EXCEPT ![p] = Nil]
    /\ netTotals' = [netTotals EXCEPT ![p] = Nil]
    /\ bestBlockHash' = [bestBlockHash EXCEPT ![p] = Nil]
    /\ blockHeader' = [blockHeader EXCEPT ![p] = Nil]
    /\ pc' = [pc EXCEPT ![p] = "Collect"]

newBtcdStatistics(b, pe, d, sent, recv, ts) ==
    [blocks |-> b, peers |-> pe, difficulty |-> d,
     bytesSent |-> sent, bytesReceived |-> recv, latestBlockTs |-> ts]

newBtcdStatisticsBase(b, pe, d, sent, recv) ==
    [blocks |-> b, peers |-> pe, difficulty |-> d,
     bytesSent |-> sent, bytesReceived |-> recv]

GetInfoCall(p) == Issue(p, "GetInfo", Nil)

\* Variation: the error of GetInfo is not tested.
GetInfoReturnUnchecked(p) ==
    /\ Alive
    /\ pc[p] = Waiting("GetInfo")
    /\ \E outcome \in Outcomes : \E r \in Replies(outcome, "GetInfo", InfoResults) :
          /\ resp' = [resp EXCEPT ![p] = Append(@, r)]
          /\ info' = [info EXCEPT ![p] =
                        IF r.err # Nil
                        THEN [Blocks |-> 0, Connections |-> 0, Difficulty |-> 0]
                        ELSE r.result]
          /\ pc' = [pc EXCEPT ![p] = "GetNetTotals"]
          /\ UNCHANGED <<netTotals, bestBlockHash, blockHeader, statistics, err>>
    /\ UNCHANGED <<variant, env, mainVars, ch, calls, histVars>>

GetInfoReturn(p) ==
    /\ Alive
    /\ pc[p] = Waiting("GetInfo")
    /\ \E outcome \in Outcomes : \E r \in Replies(outcome, "GetInfo", InfoResults) :
          /\ resp' = [resp EXCEPT ![p] = Append(@, r)]
          /\ IF r.err # Nil
                THEN Return(p, Nil, r.err)
                ELSE /\ info' = [info EXCEPT ![p] = r.result]
                     /\ pc' = [pc EXCEPT ![p] = "GetNetTotals"]
                     /\ UNCHANGED <<netTotals, bestBlockHash, blockHeader,
                                    statistics, err>>
    /\ UNCHANGED <<variant, env, mainVars, ch, calls, histVars>>

GetNetTotalsCall(p) == Issue(p, "GetNetTotals", Nil)

\* Variation: a failed GetNetTotals returns the fields gathered so far, the
\* byte counters zero, together with the error.
GetNetTotalsReturnPartial(p) ==
    /\ Alive
    /\ pc[p] = Waiting("GetNetTotals")
    /\ \E outcome \in Outcomes :
       \E r \in Replies(outcome, "GetNetTotals", NetTotalsResults) :
          /\ resp' = [resp EXCEPT ![p] = Append(@, r)]
          /\ IF r.err # Nil
                THEN Return(p,
                            newBtcdStatisticsBase(info[p].Blocks,
                                                  info[p].Connections,
                                                  info[p].Difficulty, 0, 0),
                            r.err)
                ELSE IF variant = "extended"
                THEN /\ netTotals' = [netTotals EXCEPT ![p] = r.result]
                     /\ pc' = [pc EXCEPT ![p] = "GetBestBlockHash"]
                     /\ UNCHANGED <<info, bestBlockHash, blockHeader,
                                    statistics, err>>
                ELSE Return(p,
                            newBtcdStatisticsBase(info[p].Blocks,
                                                  info[p].Connections,
                                                  info[p].Difficulty,
                                                  r.result.TotalBytesSent,
                                                  r.result.TotalBytesRecv),
                            Nil)
    /\ UNCHANGED <<variant, env, mainVars, ch, calls, histVars>>

GetNetTotalsReturn(p) ==
    /\ Alive
    /\ pc[p] = Waiting("GetNetTotals")
    /\ \E outcome \in Outcomes : \E r \in Replies(outcome, "GetNetTotals", NetTotalsResults) :
          /\ resp' = [resp EXCEPT ![p] = Append(@, r)]
          /\ IF r.err # Nil
                THEN Return(p, Nil, r.err)
                ELSE IF variant = "extended"
                THEN /\ netTotals' = [netTotals EXCEPT ![p] = r.result]
                     /\ pc' = [pc EXCEPT ![p] = "GetBestBlockHash"]
                     /\ UNCHANGED <<info, bestBlockHash, blockHeader,
                                    statistics, err>>
                ELSE Return(p,
                            newBtcdStatisticsBase(info[p].Blocks,
                                                  info[p].Connections,
                                                  info[p].Difficulty,
                                                  r.result.TotalBytesSent,
                                                  r.result.TotalBytesRecv),
                            Nil)
    /\ UNCHANGED <<variant, env, mainVars, ch, calls, histVars>>

GetBestBlockHashCall(p) == Issue(p, "GetBestBlockHash", Nil)

GetBestBlockHashReturn(p) ==
    /\ Alive
    /\ pc[p] = Waiting("GetBestBlockHash")
    /\ \E outcome \in Outcomes : \E r \in Replies(outcome, "GetBestBlockHash", BlockHashes) :
          /\ resp' = [resp EXCEPT ![p] = Append(@, r)]
          /\ IF r.err # Nil
                THEN Return(p, Nil, r.err)
                ELSE /\ bestBlockHash' = [bestBlockHash EXCEPT ![p] = r.result]
                     /\ pc' = [pc EXCEPT ![p] = "GetBlockHeader"]
                     /\ UNCHANGED <<info, netTotals, blockHeader,
                                    statistics, err>>
    /\ UNCHANGED <<variant, env, mainVars, ch, calls, histVars>>

\* Variation: the hash is held in a variable shared by the handlers, so the
\* header is asked for whatever hash was stored last.
GetBlockHeaderCallSharedHash(p) ==
    Issue(p, "GetBlockHeader",
          IF \E q \in Procs \ {p} : bestBlockHash[q] # Nil
          THEN bestBlockHash[CHOOSE q \in Procs \ {p} : bestBlockHash[q] # Nil]
          ELSE bestBlockHash[p])

GetBlockHeaderCall(p) == Issue(p, "GetBlockHeader", bestBlockHash[p])

\* The node answers for the hash it was asked about (the last query issued).
\* On success the statistics are assembled; int(x) of the reply's integer
\* fields and of Timestamp.Unix() keeps their values.
GetBlockHeaderReturn(p) ==
    /\ Alive
    /\ pc[p] = Waiting("GetBlockHeader")
    /\ \E outcome \in Outcomes :
       \E r \in Replies(outcome, "GetBlockHeader",
                          {HeaderOf(calls[p][Len(calls[p])].arg)}) :
          /\ resp' = [resp EXCEPT ![p] = Append(@, r)]
          /\ IF r.err # Nil
                THEN Return(p, Nil, r.err)
                ELSE Return(p,
                            newBtcdStatistics(info[p].Blocks,
                                              info[p].Connections,
                                              info[p].Difficulty,
                                              netTotals[p].TotalBytesSent,
                                              netTotals[p].TotalBytesRecv,
                                              r.result.Timestamp),
                            Nil)
    /\ UNCHANGED <<variant, env, mainVars, ch, calls, histVars>>

\* Variation: the failure branch sends up = 1.
FailureSamplesUpOne(p) == << MustNewConstMetric(up, GaugeValue, 1) >>

\* Variation: on failure the samples of the previous scrape are served again.
FailureSamplesStale(p) ==
    IF prev[p] # NoSamples THEN prev[p]
    ELSE << MustNewConstMetric(up, GaugeValue, 0) >>

\* Collect, err != nil: up=0, the error is logged, nothing else is sent.
FailureSamples(p) == << MustNewConstMetric(up, GaugeValue, 0) >>

\* Variation: the two byte counters are taken from each other's field.
SuccessSamplesSwapped(st) ==
    << MustNewConstMetric(up, GaugeValue, 1),
       MustNewConstMetric(blocks, CounterValue, st.blocks),
       MustNewConstMetric(peers, GaugeValue, st.peers),
       MustNewConstMetric(difficulty, GaugeValue, st.difficulty),
       MustNewConstMetric(bytesSent, CounterValue, st.bytesReceived),
       MustNewConstMetric(bytesReceived, GaugeValue, st.bytesSent) >>
    \o (IF variant = "extended"
        THEN << MustNewConstMetric(latestBlock, GaugeValue, st.latestBlockTs) >>
        ELSE << >>)

\* Collect, err == nil.
SuccessSamples(st) ==
    << MustNewConstMetric(up, GaugeValue, 1),
       MustNewConstMetric(blocks, CounterValue, st.blocks),
       MustNewConstMetric(peers, GaugeValue, st.peers),
       MustNewConstMetric(difficulty, GaugeValue, st.difficulty),
       MustNewConstMetric(bytesSent, CounterValue, st.bytesSent),
       MustNewConstMetric(bytesReceived, GaugeValue, st.bytesReceived) >>
    \o (IF variant = "extended"
        THEN << MustNewConstMetric(latestBlock, GaugeValue, st.latestBlockTs) >>
        ELSE << >>)

Finish(p, samples) ==
    /\ ch' = [ch EXCEPT ![p] = samples]
    /\ statistics' = [statistics EXCEPT ![p] = Nil]
    /\ err' = [err EXCEPT ![p] = Nil]
    /\ pc' = [pc EXCEPT ![p] = "done"]
    /\ UNCHANGED <<variant, env, mainVars, fetchVars, calls, resp, histVars>>

\* Variation: log.Fatal(err) in place of log.Println(err).
CollectFailureFatal(p) ==
    /\ Alive
    /\ pc[p] = "Collect"
    /\ err[p] # Nil
    /\ ch' = [ch EXCEPT ![p] = FailureSamples(p)]
    /\ mainPc' = "fatal"
    /\ UNCHANGED <<variant, env, certRead, client, registered, listening, pc,
                   fetchVars, statistics, err, calls, resp, histVars>>

\* ch <- up=0; log.Println(err); return
CollectFailure(p) ==
    /\ Alive
    /\ pc[p] = "Collect"
    /\ err[p] # Nil
    /\ Finish(p, FailureSamples(p))

CollectSuccess(p) ==
    /\ Alive
    /\ pc[p] = "Collect"
    /\ err[p] = Nil
    /\ Finish(p, SuccessSamples(statistics[p]))

---------------------------------------------------------------------------
Init ==
    /\ variant \in Variants
    /\ env \in [host : EnvValues, username : EnvValues, password : EnvValues]
    /\ mainPc = "start"
    /\ certRead = "none"
    /\ client = Nil
    /\ registered = <<>>
    /\ listening = FALSE
    /\ pc = [p \in Procs |-> "idle"]
    /\ info = [p \in Procs |-> Nil]
    /\ netTotals = [p \in Procs |-> Nil]
    /\ bestBlockHash = [p \in Procs |-> Nil]
    /\ blockHeader = [p \in Procs |-> Nil]
    /\ statistics = [p \in Procs |-> Nil]
    /\ err = [p \in Procs |-> Nil]
    /\ ch = [p \in Procs |-> NoSamples]
    /\ calls = [p \in Procs |-> <<>>]
    /\ resp = [p \in Procs |-> <<>>]
    /\ prev = [p \in Procs |-> NoSamples]
    /\ started = 0

Main ==
    \/ MainCheckEnv
    \/ MainReadCert
    \/ MainNewClient
    \/ MainRegister
    \/ MainListen

GetAllStatistics(p) ==
    \/ GetInfoCall(p)
    \/ GetInfoReturn(p)
    \/ GetNetTotalsCall(p)
    \/ GetNetTotalsReturn(p)
    \/ GetBestBlockHashCall(p)
    \/ GetBestBlockHashReturn(p)
    \/ GetBlockHeaderCall(p)
    \/ GetBlockHeaderReturn(p)

Collect(p) ==
    \/ GetAllStatistics(p)
    \/ CollectFailure(p)
    \/ CollectSuccess(p)

Next ==
    \/ Main
    \/ \E p \in Procs : StartCollect(p)
    \/ \E p \in Procs : Collect(p)

Spec == Init /\ [][Next]_vars

FairSpec == Spec /\ \A p \in Procs : WF_vars(Collect(p))

---------------------------------------------------------------------------
(* Vocabulary of the properties.  Everything below reads a scrape's output *)
(* against the replies that scrape received (resp), never against the      *)
(* locals the code filled in.                                              *)

InCollect(p) == pc[p] \notin {"idle", "done"}
Finished(p) == pc[p] = "done"

\* The fixed order of upstream queries; the base variant stops after two.
FixedSequence == <<"GetInfo", "GetNetTotals", "GetBestBlockHash", "GetBlockHeader">>
QueriesNeeded == IF variant = "extended" THEN 4 ELSE 2

FailedAt(p, i) == i \in 1..Len(resp[p]) /\ resp[p][i].err # Nil
AnyFailed(p) == \E i \in 1..Len(resp[p]) : FailedAt(p, i)
AllSucceeded(p) ==
    /\ Len(resp[p]) = QueriesNeeded
    /\ \A i \in 1..Len(resp[p]) : resp[p][i].err = Nil

\* A sample as the scrape's reader sees it: metric name, kind, value.
View(sample) == <<sample.desc.fqName, sample.valueType, sample.value>>
Views(samples) == { View(samples[i]) : i \in 1..Len(samples) }
Names(samples) == { samples[i].desc.fqName : i \in 1..Len(samples) }
NoDuplicates(samples) == Cardinality(Names(samples)) = Len(samples)

UpDown == <<"btcd_up", "gauge", 0>>
UpAlive == <<"btcd_up", "gauge", 1>>
ValueNames == {"btcd_blocks_total", "btcd_peers", "btcd_difficulty",
               "btcd_sent_bytes", "btcd_received_bytes",
               "btcd_latest_block_timestamp"}

\* What a scrape that received `replies`, all successful, has to publish.
SnapshotViews(replies) ==
    { UpAlive,
      <<"btcd_blocks_total", "counter", replies[1].result.Blocks>>,
      <<"btcd_peers", "gauge", replies[1].result.Connections>>,
      <<"btcd_difficulty", "gauge", replies[1].result.Difficulty>>,
      <<"btcd_sent_bytes", "counter", replies[2].result.TotalBytesSent>>,
      <<"btcd_received_bytes", "gauge", replies[2].result.TotalBytesRecv>> }
    \cup (IF Len(replies) >= 4
          THEN { <<"btcd_latest_block_timestamp", "gauge",
                   replies[4].result.Timestamp>> }
          ELSE {})

\* The output as a function of the replies of the scrape alone.
OutputOf(replies) ==
    IF \E i \in 1..Len(replies) : replies[i].err # Nil
    THEN {UpDown}
    ELSE SnapshotViews(replies)

---------------------------------------------------------------------------
\* C1: a finished scrape in which some upstream query failed has published
\* exactly one sample, up = 0, and no value metric, also when earlier
\* queries of the scrape had succeeded.
C1_FailureEmitsOnlyUpZero ==
    \A p \in Procs :
        (Finished(p) /\ AnyFailed(p)) =>
            /\ Len(ch[p]) = 1
            /\ View(ch[p][1]) = UpDown
            /\ Names(ch[p]) \cap ValueNames = {}

C1_Witness ==
    \E p \in Procs :
        /\ Finished(p)
        /\ Len(resp[p]) >= 2
        /\ FailedAt(p, Len(resp[p]))
        /\ ch[p] # NoSamples

C3_ShortCircuit ==
    \A p \in Procs : \A i \in 1..Len(resp[p]) :
        resp[p][i].err # Nil => Len(calls[p]) = i

C3_Witness ==
    \E p \in Procs :
        /\ Finished(p)
        /\ FailedAt(p, 1)
        /\ Len(calls[p]) = 1

\* C4: under any interleaving of scrapes, what a scrape holds and publishes
\* comes from the replies to its own queries only.
C4_NoCrossContamination ==
    \A p \in Procs :
        /\ info[p] # Nil => info[p] = resp[p][1].result
        /\ netTotals[p] # Nil => netTotals[p] = resp[p][2].result
        /\ bestBlockHash[p] # Nil => bestBlockHash[p] = resp[p][3].result
        /\ pc[p] = "Collect" => (err[p] = Nil <=> AllSucceeded(p))
        /\ Finished(p) => Views(ch[p]) = OutputOf(resp[p])

\* Two scrapes in flight together, both back from GetAllStatistics: one with
\* an error after its first query had succeeded, the other with a snapshot
\* built on a different GetInfo reply.
C4_Witness ==
    \E p, q \in Procs :
        /\ p # q
        /\ pc[p] = "Collect" /\ err[p] # Nil /\ Len(resp[p]) >= 2
        /\ pc[q] = "Collect" /\ err[q] = Nil /\ AllSucceeded(q)
        /\ statistics[q].blocks = resp[q][1].result.Blocks
        /\ resp[p][1] # resp[q][1]

\* C6: GetAllStatistics hands Collect either a statistics value with every
\* field taken from a successful reply of this call and no error, or no
\* statistics value and the error of the query that failed.
C6_AllOrNothing ==
    \A p \in Procs :
        pc[p] = "Collect" =>
            \/ /\ err[p] = Nil
               /\ statistics[p] # Nil
               /\ AllSucceeded(p)
               /\ statistics[p].blocks = resp[p][1].result.Blocks
               /\ statistics[p].peers = resp[p][1].result.Connections
               /\ statistics[p].difficulty = resp[p][1].result.Difficulty
               /\ statistics[p].bytesSent = resp[p][2].result.TotalBytesSent
               /\ statistics[p].bytesReceived = resp[p][2].result.TotalBytesRecv
               /\ variant = "extended" =>
                    statistics[p].latestBlockTs = resp[p][4].result.Timestamp
            \/ /\ err[p] # Nil
               /\ statistics[p] = Nil
               /\ \E i \in 1..Len(resp[p]) :
                     /\ err[p] = resp[p][i].err
                     /\ \A j \in 1..(i - 1) : resp[p][j].err = Nil

C6_Witness ==
    \E p \in Procs :
        /\ pc[p] = "Collect"
        /\ err[p] # Nil
        /\ statistics[p] = Nil
        /\ Len(resp[p]) >= 2

\* C7: what a scrape publishes is a function of the replies it received,
\* whatever the handler's earlier scrape published; two finished scrapes
\* with the same replies have the same output.
C7_Stateless ==
    /\ \A p \in Procs :
          (Finished(p) /\ prev[p] # NoSamples) =>
              Views(ch[p]) = OutputOf(resp[p])
    /\ \A p, q \in Procs :
          (Finished(p) /\ Finished(q) /\ resp[p] = resp[q]) =>
              Views(ch[p]) = Views(ch[q])

\* A failed scrape right after a successful one of the same handler.
C7_Witness ==
    \E p \in Procs :
        /\ Finished(p)
        /\ UpAlive \in Views(prev[p])
        /\ AnyFailed(p)
        /\ Views(ch[p]) = {UpDown}

UpSamples(p) == { i \in 1..Len(ch[p]) : ch[p][i].desc.fqName = "btcd_up" }

\* C5: every scrape that was started finishes with exactly one up sample,
\* whatever mix of results and errors upstream returns; the process keeps
\* serving, and a handler that finished can take the next scrape.
C5_ScrapeCompletes ==
    /\ \A p \in Procs :
          InCollect(p) ~> (Finished(p) /\ Cardinality(UpSamples(p)) = 1 /\ Alive)
    /\ [][Alive => Alive']_vars
    /\ [](\A p \in Procs :
            (Finished(p) /\ started < MaxScrapes) => ENABLED StartCollect(p))

\* A scrape served to the end after the handler's previous scrape had failed.
C5_Witness ==
    \E p \in Procs :
        /\ Finished(p)
        /\ Views(prev[p]) = {UpDown}
        /\ AnyFailed(p)
        /\ Cardinality(UpSamples(p)) = 1
        /\ Alive

\* The queries a scrape issues are a prefix of the fixed sequence, each
\* issued once and only after the one before it came back successfully;
\* GetBlockHeader is asked for the hash this scrape's GetBestBlockHash
\* returned.
C8_Sequence ==
    \A p \in Procs :
        /\ Len(calls[p]) <= Len(FixedSequence)
        /\ \A i \in 1..Len(calls[p]) : calls[p][i].method = FixedSequence[i]
        /\ Len(resp[p]) <= Len(calls[p])
        /\ Len(calls[p]) <= Len(resp[p]) + 1
        /\ \A i \in 1..(Len(calls[p]) - 1) : resp[p][i].err = Nil
        /\ Len(calls[p]) = 4 => calls[p][4].arg = resp[p][3].result
        /\ Len(calls[p]) > Len(resp[p]) => InCollect(p)

C8_IssuedInCollect ==
    \A p \in Procs :
        Len(calls'[p]) > Len(calls[p]) => (InCollect(p) /\ InCollect(p)' /\ Alive)

\* C8: in every state the queries a scrape has issued are a prefix of
\* GetInfo, GetNetTotals, GetBestBlockHash, GetBlockHeader, each issued once
\* and only after the one before it came back successfully, GetBlockHeader
\* with the hash this scrape was given; and every step that issues a query
\* is a step of a scrape in progress.
C8_QueryOrder == [](C8_Sequence) /\ [][C8_IssuedInCollect]_vars

\* Two scrapes in flight that were given different best block hashes, one of
\* them waiting for its header.
C8_Witness ==
    \E p, q \in Procs :
        /\ p # q
        /\ pc[p] = Waiting("GetBlockHeader")
        /\ Len(calls[p]) = 4
        /\ bestBlockHash[q] # Nil
        /\ bestBlockHash[q] # bestBlockHash[p]

\* C9: with a required variable empty or the certificate unreadable, no
\* session, registration, listener, scrape or query ever exists; a scrape
\* exists only after every check passed and the session was created.
C9_ConfigErrorsFatalFirst ==
    /\ (EnvMissing \/ certRead = "failed") =>
          /\ mainPc \in {"start", "fatal"}
          /\ client = Nil
          /\ registered = <<>>
          /\ ~listening
          /\ started = 0
          /\ \A p \in Procs : pc[p] = "idle" /\ calls[p] = <<>>
    /\ (started > 0 \/ \E p \in Procs : pc[p] # "idle" \/ calls[p] # <<>>) =>
          /\ ~EnvMissing
          /\ certRead = IF variant = "extended" THEN "ok" ELSE "none"
          /\ client # Nil
          /\ registered # <<>>
          /\ listening

C9_Witness ==
    /\ EnvMissing
    /\ env.host = "set"
    /\ mainPc = "fatal"

\* C10: every sample of a finished scrape uses a descriptor that Describe
\* announced at registration, a successful scrape uses exactly the announced
\* descriptors, and neither announces or uses one twice.
C10_DescribeCollectAgree ==
    /\ Cardinality({ registered[i] : i \in 1..Len(registered) }) = Len(registered)
    /\ \A p \in Procs :
          Finished(p) =>
              /\ \A i \in 1..Len(ch[p]) :
                    \E j \in 1..Len(registered) : ch[p][i].desc = registered[j]
              /\ NoDuplicates(ch[p])
              /\ AllSucceeded(p) =>
                    { ch[p][i].desc : i \in 1..Len(ch[p]) }
                        = { registered[j] : j \in 1..Len(registered) }

C10_Witness ==
    \E p \in Procs :
        /\ Finished(p)
        /\ AllSucceeded(p)
        /\ Len(registered) = 7
        /\ Len(ch[p]) = 7
====
